---- MODULE Spec2Model ----
(***************************************************************************)
(* The interactive command shell of the OS FileSystem simulator dashboard  *)
(* (frontend/src/components/panels/TerminalPanel.tsx) as a state machine.  *)
(*                                                                         *)
(* A raw input line is a sequence of lexemes: a lexeme is either the       *)
(* whitespace lexeme " " or a word (a maximal run of non-whitespace        *)
(* characters).  Two words are never adjacent in a line.  A display line   *)
(* of the transcript is a record; its field text is the displayed string   *)
(* (a sequence of string pieces), and the fields kind, sid and n are       *)
(* bookkeeping that says which submission produced the line.               *)
(***************************************************************************)
EXTENDS Integers, Sequences, FiniteSets, TLC

(***************************************************************************)
(* Program constants                                                       *)
(***************************************************************************)
OutputCap == 500

HistoryCap == 100

BannerLen == 29

PROMPT == "root@osfs:~$ "

(***************************************************************************)
(* Bounds of the model                                                     *)
(***************************************************************************)
MaxSubmit == 2

MaxItems == 1

MaxSubmitVerbs == 1

MaxSubmitBound == 2

MaxOver == 1

MaxEntries == 2

MaxSubmitRecall == 2

MaxSubmitPair == 2

VARIABLES
  output,          \* React state `output`: the Scrollback
  outputIsWelcome, \* whether `output` is the WELCOME_MESSAGE array itself (same reference)
  input,           \* React state `input`: the live input line
  history,         \* React state `history`
  historyIndex,    \* React state `historyIndex`: the recall cursor
  historyAtMount,  \* the `history` value captured by executeCommand's closure
  storedOutput,    \* localStorage item 'terminal_output'
  storedHistory,   \* localStorage item 'terminal_history'
  quotaExceeded,   \* whether localStorage.setItem throws (quota exceeded, storage disabled)
  inflight,        \* handlers suspended at an await: sid -> continuation
  facadeLog,       \* every Remote Service Facade call issued so far, in order
  nextSid,         \* number of non-empty submissions so far
  crashed,         \* whether a render threw, which takes the panel off the page
  files,           \* the file store behind the Remote Service Facade
  recall,          \* the run of Up/Down presses in progress and the input line and
                   \* History it started from
  mountedFrom      \* the two localStorage items the panel was mounted from and what
                   \* the mount made of them

vars == <<output, outputIsWelcome, input, history, historyIndex, historyAtMount,
          storedOutput, storedHistory, quotaExceeded, inflight, facadeLog, nextSid,
          crashed, files, recall, mountedFrom>>

(***************************************************************************)
(* Sequences                                                               *)
(***************************************************************************)
\* Array.prototype.slice(-n): the last n elements (all of them when shorter)
SliceLast(s, n) ==
  IF Len(s) <= n THEN s ELSE SubSeq(s, Len(s) - n + 1, Len(s))

\* Array.prototype.slice(k) for k >= 0: drop the first k elements
SliceFrom(s, k) ==
  IF k >= Len(s) THEN <<>> ELSE SubSeq(s, k + 1, Len(s))

(***************************************************************************)
(* Display lines                                                           *)
(***************************************************************************)
\* WELCOME_MESSAGE: 29 fixed lines
WELCOME_MESSAGE ==
  [i \in 1..BannerLen |-> [kind |-> "banner", sid |-> 0, n |-> i, text |-> <<"banner">>]]

\* the echo line built from the trimmed, re-joined tokens instead of the raw line
EchoLine_Trimmed(sid, cmdLine) ==
  [kind |-> "echo", sid |-> sid, n |-> 0,
   text |-> <<"root@osfs:~$ ">> \o SelectSeq(cmdLine, LAMBDA x : x # " ")]

\* `root@osfs:~$ ${cmdLine}`
EchoLine(sid, cmdLine) ==
  [kind |-> "echo", sid |-> sid, n |-> 0, text |-> <<PROMPT>> \o cmdLine]

\* result.split('\n') handed to addOutput: one display line per text
ResultLines(sid, result) ==
  [i \in 1..Len(result) |-> [kind |-> "out", sid |-> sid, n |-> i, text |-> result[i]]]

\* a line left in the snapshot by an earlier session
OldLine(i) ==
  [kind |-> "old", sid |-> 0, n |-> i, text |-> <<"old">>]

\* n numbered rows of a table
Rows(tag, n) ==
  [i \in 1..n |-> <<tag, ToString(i)>>]

(***************************************************************************)
(* Line Tokenizer                                                          *)
(***************************************************************************)
IsSpace(x) == x = " "

\* cmdLine.trim().split(/\s+/) ; the empty sequence when cmdLine.trim() is ''
Tokens(cmdLine) ==
  SelectSeq(cmdLine, LAMBDA x : ~IsSpace(x))

\* String.prototype.toLowerCase on the words of the vocabulary
ToLowerCase(w) ==
  CASE w = "LS" -> "ls"
    [] w = "CLEAR" -> "clear"
    [] w = "Frobnicate" -> "frobnicate"
    [] w = "START" -> "start"
    [] OTHER -> w

(***************************************************************************)
(* Remote Service Facade: calls and responses                              *)
(***************************************************************************)
\* The string '' as file content: one empty line
EmptyContent == << <<>> >>

NoCall == [op |-> "none", target |-> "", content |-> <<>>]

\* A facade call: operation name, the name/key/id it is about, the content sent
Call(op, target, content) == [op |-> op, target |-> target, content |-> content]

NoResp == [status |-> "none", error |-> "", items |-> 0, content |-> <<>>]

\* What a facade call can settle with: a rejection (transport failure or
\* malformed response), {success: false} with or without an error message, or
\* {success: true} carrying 0..MaxItems items (files, processes, content lines...)
Rejections ==
  {[status |-> "reject", error |-> "Failed to fetch", items |-> 0, content |-> <<>>]}

Failures ==
  {[status |-> "fail", error |-> e, items |-> 0, content |-> <<>>] : e \in {"", "E"}}

Responses ==
  Rejections \cup Failures
  \cup {[status |-> "ok", error |-> "", items |-> k,
         content |-> IF k = 0 THEN EmptyContent ELSE Rows("content", k)] : k \in 0..MaxItems}

\* existing.content || '' : FileReadResponse.content of a response, as lines
ContentOf(resp) ==
  IF resp.content = <<>> THEN EmptyContent ELSE resp.content

\* array.join(' ') of words, as one content line
JoinWords(words) == <<words>>

(***************************************************************************)
(* The file service behind the facade.  One file name is tracked; calls    *)
(* about any other name, and calls of the other operations, settle with    *)
(* any response.                                                           *)
(***************************************************************************)
FileNames == {"f"}

NoFile == [exists |-> FALSE, content |-> <<>>]

File(content) == [exists |-> TRUE, content |-> content]

\* the stores a session may start with: the file absent, or holding "hello"
FileStores ==
  { [name \in FileNames |-> NoFile], [name \in FileNames |-> File(<< <<"hello">> >>)] }

FileOps == {"readFile", "createFile", "updateFile", "deleteFile"}

Done == [status |-> "ok", error |-> "", items |-> 0, content |-> EmptyContent]

\* what a call can settle with: read file succeeds on an existing file and
\* returns its content, create file succeeds on an absent name, update file
\* and delete succeed on an existing one; any call can be rejected in transport
Outcomes(call, store) ==
  IF call.op \in FileOps /\ call.target \in DOMAIN store
    THEN LET file == store[call.target]
         IN  Rejections \cup
             (CASE call.op = "readFile" ->
                     IF file.exists
                       THEN {[status |-> "ok", error |-> "", items |-> Len(file.content),
                              content |-> file.content]}
                       ELSE Failures
                [] call.op = "createFile" -> IF file.exists THEN Failures ELSE {Done}
                [] OTHER -> IF file.exists THEN {Done} ELSE Failures)
    ELSE Responses

\* the store after the service answered call with resp
Serve(call, resp, store) ==
  IF call.op \in FileOps /\ call.target \in DOMAIN store /\ resp.status = "ok"
    THEN CASE call.op \in {"createFile", "updateFile"} ->
                [store EXCEPT ![call.target] = File(call.content)]
           [] call.op = "deleteFile" -> [store EXCEPT ![call.target] = NoFile]
           [] OTHER -> store
    ELSE store

(***************************************************************************)
(* Command Registry                                                        *)
(***************************************************************************)
\* args[i] (0-based index i), undefined when there is no such argument
Arg(args, i) ==
  IF Len(args) > i THEN args[i + 1] ELSE "undefined"

\* the handler of kill without its  if (!args[0])
ArgVerbs1_KillUnchecked ==
  {"cat", "touch", "rm", "mkdir", "cd", "stat", "info", "open", "close",
   "hexdump", "block", "inode", "nice", "run", "sched",
   "shmread", "shm_read", "ipcrm"}

\* verbs whose handler starts with  if (!args[0])
ArgVerbs1 ==
  {"cat", "touch", "rm", "mkdir", "cd", "stat", "info", "open", "close",
   "hexdump", "block", "inode", "kill", "nice", "run", "sched",
   "shmread", "shm_read", "ipcrm"}

\* verbs whose handler starts with  if (args.length < 2)
ArgVerbs2 == {"write", "shmwrite", "shm_write"}

\* the usage text of a verb, already split at '\n'
Usage(cmd) ==
  CASE cmd = "cat" -> << <<"usage: ", "cat <filename>">> >>
    [] cmd = "touch" -> << <<"usage: ", "touch <filename> [content]">> >>
    [] cmd = "rm" -> << <<"usage: ", "rm <file or dir>">>, <<"hint: a directory must be empty">> >>
    [] cmd = "mkdir" -> << <<"usage: ", "mkdir <dirname>">> >>
    [] cmd = "cd" -> << <<"usage: ", "cd <dirname>">>, <<"hint: cd .. goes up">> >>
    [] cmd \in {"stat", "info"} -> << <<"usage: ", "stat <filename>">> >>
    [] cmd = "write" -> << <<"usage: ", "write <filename> <content>">> >>
    [] cmd = "open" -> << <<"usage: ", "open <filename>">> >>
    [] cmd = "close" -> << <<"usage: ", "close <filename>">> >>
    [] cmd \in {"hexdump", "block"} ->
         << <<"usage: ", "hexdump <block_id>">>, <<"example: hexdump 35">> >>
    [] cmd = "inode" -> << <<"usage: ", "inode <inode_id>">>, <<"example: inode 0">> >>
    [] cmd = "kill" -> << <<"usage: ", "kill <pid>">> >>
    [] cmd \in {"nice", "run"} ->
         << <<"usage: ", "nice <name> [seconds]">>, <<"example: nice task1 5">> >>
    [] cmd = "sched" ->
         << <<"usage: ", "sched <start|stop|pause|resume|quantum N>">>,
            <<"example: sched start / sched quantum 200">> >>
    [] cmd \in {"shmread", "shm_read"} -> << <<"usage: ", "shmread <key> [offset] [length]">> >>
    [] cmd \in {"shmwrite", "shm_write"} -> << <<"usage: ", "shmwrite <key> <content>">> >>
    [] cmd = "ipcrm" -> << <<"usage: ", "ipcrm <key>">> >>
    [] OTHER -> <<>>

\* verbs whose handler awaits exactly one facade call and reads data.success
CheckedVerbs ==
  {"ls", "pwd", "cat", "touch", "rm", "mkdir", "cd", "stat", "info", "write",
   "open", "close", "hexdump", "block", "sync", "flush", "mkfs", "format",
   "inode", "kill", "nice", "run", "batch", "sched", "shmget", "shm_create",
   "shmread", "shm_read", "shmwrite", "shm_write", "ipcrm"}

\* verbs whose handler awaits one facade call and never reads data.success
\* (inodes reads it only to choose between the table and 'no inodes in use')
UncheckedVerbs == {"df", "disk", "free", "buffer", "ps", "jobs", "ipcs", "shm", "inodes"}

\* verbs whose handler awaits two facade calls
TwoCallVerbs == {"echo", "dumpe2fs", "top", "scheduler"}

\* verbs that never call the facade
LocalVerbs == {"clear", "history", "help", "man"}

\* every case label of the switch in executeCommand
RegistryVerbs == CheckedVerbs \cup UncheckedVerbs \cup TwoCallVerbs \cup LocalVerbs

\* args[0].toLowerCase() of sched, and the scheduler operation it selects
SchedOp(subcmd) ==
  CASE subcmd = "start" -> "startScheduler"
    [] subcmd = "stop" -> "stopScheduler"
    [] subcmd = "pause" -> "pauseScheduler"
    [] subcmd = "resume" -> "resumeScheduler"
    [] subcmd = "quantum" -> "setTimeQuantum"
    [] OTHER -> "none"

\* the facade operation a one-call verb invokes first
FirstOp(cmd, args) ==
  CASE cmd = "ls" -> "listFiles"
    [] cmd = "pwd" -> "getCurrentPath"
    [] cmd = "cat" -> "readFile"
    [] cmd = "touch" -> "createFile"
    [] cmd = "rm" -> "deleteFile"
    [] cmd = "mkdir" -> "createDirectory"
    [] cmd = "cd" -> "changeDirectory"
    [] cmd \in {"stat", "info"} -> "getFileInfo"
    [] cmd \in {"df", "disk", "dumpe2fs"} -> "getDiskInfo"
    [] cmd \in {"free", "buffer"} -> "getBufferStatus"
    [] cmd \in {"ps", "jobs"} -> "getProcesses"
    [] cmd = "echo" -> "readFile"
    [] cmd = "write" -> "updateFile"
    [] cmd = "open" -> "openFile"
    [] cmd = "close" -> "closeFile"
    [] cmd \in {"hexdump", "block"} -> "readBlock"
    [] cmd \in {"sync", "flush"} -> "flushBuffer"
    [] cmd \in {"mkfs", "format"} -> "formatDisk"
    [] cmd = "inode" -> "getInode"
    [] cmd = "inodes" -> "listInodes"
    [] cmd = "kill" -> "terminateProcess"
    [] cmd \in {"nice", "run"} -> "createLongTask"
    [] cmd = "batch" -> "createBatch"
    [] cmd \in {"top", "scheduler"} -> "getSchedulerStatus"
    [] cmd = "sched" -> SchedOp(ToLowerCase(Arg(args, 0)))
    [] cmd \in {"ipcs", "shm"} -> "listShm"
    [] cmd \in {"shmget", "shm_create"} -> "createShm"
    [] cmd \in {"shmread", "shm_read"} -> "readShm"
    [] cmd \in {"shmwrite", "shm_write"} -> "writeShm"
    [] cmd = "ipcrm" -> "deleteShm"
    [] OTHER -> "none"

(***************************************************************************)
(* Command Executor: the body of executeCommand's try block, cut at its    *)
(* awaits.  A step of a handler either settles with a result (the lines    *)
(* of `result`, none for '') or suspends at a facade call.                 *)
(***************************************************************************)
Settle(result) == [done |-> TRUE, result |-> result, call |-> NoCall]

Await(call) == [done |-> FALSE, result |-> <<>>, call |-> call]

\* a catch block that swallows the failure
ErrorLine_Swallowed(message) == <<>>

\* catch (error): `error: ${error.message}`
ErrorLine(message) == << <<"error: ", message>> >>

\* data.error || fallback
ErrorOr(resp, fallback) ==
  IF resp.error # "" THEN << <<resp.error>> >> ELSE << <<fallback>> >>

\* the message of the TypeError thrown when a field of undefined is read
TypeErrorMessage == "Cannot read properties of undefined"

\* the static text of help / man, one entry per line: the command column and
\* the rest, or a heading, rule or blank line
HelpText ==
  << <<"OS FileSystem Simulator - help">>, <<"rule">>, <<"">>,
     <<"heading: files">>,
     <<"ls", "list the current directory">>,
     <<"pwd", "print the working directory">>,
     <<"cd", "<dir>">>,
     <<"mkdir", "<dir>">>,
     <<"touch", "<file>">>,
     <<"cat", "<file>">>,
     <<"echo", "<text> > <file>">>,
     <<"echo", "<text> >> <file>">>,
     <<"rm", "<file>">>,
     <<"stat", "<file>">>,
     <<"open", "<file>">>,
     <<"close", "<file>">>,
     <<"">>,
     <<"heading: disk and system">>,
     <<"df", "disk usage">>,
     <<"free", "buffer status">>,
     <<"sync", "flush the buffer">>,
     <<"mkfs", "--force">>,
     <<"hexdump", "<block_id>">>,
     <<"inode", "<inode_id>">>,
     <<"inodes", "list inodes in use">>,
     <<"">>,
     <<"heading: processes">>,
     <<"ps", "process list">>,
     <<"top", "scheduler status">>,
     <<"kill", "<pid>">>,
     <<"nice", "<name> [seconds]">>,
     <<"batch", "<count>">>,
     <<"jobs", "background tasks">>,
     <<"">>,
     <<"heading: scheduler">>,
     <<"sched", "start">>,
     <<"sched", "stop">>,
     <<"sched", "pause">>,
     <<"sched", "resume">>,
     <<"sched", "quantum <ms>">>,
     <<"">>,
     <<"heading: shared memory">>,
     <<"ipcs", "list segments">>,
     <<"shmget", "<size>">>,
     <<"shmread", "<key>">>,
     <<"shmwrite", "<key> <data>">>,
     <<"ipcrm", "<key>">>,
     <<"">>,
     <<"heading: other">>,
     <<"clear", "clear the screen">>,
     <<"history", "show the history">>,
     <<"help", "show this help">>,
     <<"rule">> >>

\* case 'history': one numbered line per entry of the captured history
HistoryResult(hist) ==
  IF Len(hist.val) = 0
    THEN << <<"(no history)">> >>
    ELSE IF hist.isString
      THEN ErrorLine("history.map is not a function")
      ELSE [i \in 1..Len(hist.val) |-> <<ToString(i)>> \o hist.val[i]]

\* args.findLastIndex in the place of args.findIndex
RedirectIdx_Last(args) ==
  IF \E i \in 1..Len(args) : args[i] \in {">", ">>"}
    THEN CHOOSE i \in 1..Len(args) :
           /\ args[i] \in {">", ">>"}
           /\ \A j \in (i + 1)..Len(args) : args[j] \notin {">", ">>"}
    ELSE 0

\* args.findIndex(a => a === '>' || a === '>>'), 1-based; 0 when there is none
RedirectIdx(args) ==
  IF \E i \in 1..Len(args) : args[i] \in {">", ">>"}
    THEN CHOOSE i \in 1..Len(args) :
           /\ args[i] \in {">", ">>"}
           /\ \A j \in 1..(i - 1) : args[j] \notin {">", ">>"}
    ELSE 0

\* case 'echo' without its  if (!filename)
EchoStart_NoTargetCheck(args) ==
  LET redirectIdx == RedirectIdx(args) IN
  IF redirectIdx = 0
    THEN Settle(IF Len(args) = 0 THEN <<>> ELSE << args >>)
    ELSE Await(Call("readFile", Arg(args, redirectIdx), <<>>))

\* case 'echo', up to its first await
EchoStart(args) ==
  LET redirectIdx == RedirectIdx(args) IN
  IF redirectIdx = 0
    THEN Settle(IF Len(args) = 0 THEN <<>> ELSE << args >>)
    ELSE IF Len(args) < redirectIdx + 1
      THEN Settle(<< <<"bash: syntax error near unexpected token `newline'">> >>)
      ELSE Await(Call("readFile", Arg(args, redirectIdx), <<>>))

\* case 'sched', up to its first await
SchedStart(args) ==
  LET subcmd == ToLowerCase(Arg(args, 0)) IN
  IF SchedOp(subcmd) = "none"
    THEN Settle(<< <<"unknown subcommand: ", subcmd>> >>)
    ELSE IF subcmd = "quantum"
      THEN IF Len(args) < 2
             THEN Settle(<< <<"usage: ", "sched quantum <ms>">> >>)
             ELSE Await(Call("setTimeQuantum", Arg(args, 1), <<>>))
      ELSE Await(Call(SchedOp(subcmd), "", <<>>))

\* the arguments the first facade call of a verb is given
FirstCall(cmd, args) ==
  CASE cmd = "touch" -> Call("createFile", Arg(args, 0), JoinWords(SliceFrom(args, 1)))
    [] cmd = "write" -> Call("updateFile", Arg(args, 0), JoinWords(SliceFrom(args, 1)))
    [] cmd \in {"shmwrite", "shm_write"} ->
         Call("writeShm", Arg(args, 0), JoinWords(SliceFrom(args, 1)))
    [] cmd \in ArgVerbs1 -> Call(FirstOp(cmd, args), Arg(args, 0), <<>>)
    [] cmd \in {"batch", "shmget", "shm_create"} ->
         Call(FirstOp(cmd, args), IF Len(args) = 0 THEN "default" ELSE Arg(args, 0), <<>>)
    [] OTHER -> Call(FirstOp(cmd, args), "", <<>>)

\* default without the hint line
NotFound_NoHint(cmd) ==
  << <<"command not found: ", cmd>> >>

\* default: the two lines for a verb that is no case label
NotFound(cmd) ==
  << <<"command not found: ", cmd>>, <<"type 'help' for the commands">> >>

\* mkfs that takes any first argument as the confirmation
Forced_AnyArgument(args) == Len(args) > 0

\* case 'mkfs': args[0] === '--force' || args[0] === '-f'
Forced(args) == Arg(args, 0) \in {"--force", "-f"}

\* the switch of executeCommand from its entry to the first await or to the
\* end of the case; hist is the history captured by the closure
Start(cmd, args, hist) ==
  CASE cmd \in ArgVerbs1 /\ Len(args) < 1 -> Settle(Usage(cmd))
    [] cmd \in ArgVerbs2 /\ Len(args) < 2 -> Settle(Usage(cmd))
    [] cmd = "sched" /\ Len(args) >= 1 -> SchedStart(args)
    [] cmd = "echo" -> EchoStart(args)
    [] cmd = "history" -> Settle(HistoryResult(hist))
    [] cmd \in {"help", "man"} -> Settle(HelpText)
    [] cmd \in {"mkfs", "format"} /\ ~Forced(args) ->
         Settle(<< <<"warning: mkfs formats the disk, all data is lost">>,
                   <<"use mkfs --force to confirm">> >>)
    [] cmd \in (CheckedVerbs \cup UncheckedVerbs \cup TwoCallVerbs) ->
         Await(FirstCall(cmd, args))
    [] OTHER -> Settle(NotFound(cmd))

\* the result of a verb of CheckedVerbs when its call reports success: true
OkResult(cmd, args, resp) ==
  CASE cmd = "ls" ->
         IF resp.items = 0 THEN << <<"(empty directory)">> >> ELSE Rows("ls-row", resp.items)
    [] cmd = "pwd" -> << <<"current_path">> >>
    [] cmd = "cat" ->
         IF ContentOf(resp) = EmptyContent THEN << <<"(empty file)">> >> ELSE ContentOf(resp)
    [] cmd = "touch" -> << <<"file created: ", Arg(args, 0)>> >>
    [] cmd = "rm" -> << <<"deleted: ", Arg(args, 0)>> >>
    [] cmd = "mkdir" -> << <<"directory created: ", Arg(args, 0)>> >>
    [] cmd = "cd" -> << <<"current directory: ", "current_path">> >>
    [] cmd \in {"stat", "info"} -> Rows("stat", 11)
    [] cmd = "write" -> << <<"file modified: ", Arg(args, 0)>> >>
    [] cmd = "open" -> << <<"file opened: ", Arg(args, 0)>> >>
    [] cmd = "close" -> << <<"file closed: ", Arg(args, 0)>> >>
    [] cmd \in {"hexdump", "block"} -> Rows("hexdump", resp.items)
    [] cmd \in {"mkfs", "format"} -> << <<"mke2fs: filesystem created successfully">> >>
    [] cmd = "inode" -> Rows("inode", 14)
    [] cmd \in {"nice", "run"} -> << <<"[pid] ", Arg(args, 0), " &">> >>
    [] cmd = "batch" -> Rows("task", resp.items)
    [] cmd = "sched" -> << <<"scheduler: ", ToLowerCase(Arg(args, 0))>> >>
    [] cmd \in {"shmget", "shm_create"} -> << <<"shmget: created segment">> >>
    [] cmd \in {"shmread", "shm_read"} ->
         IF resp.items = 0 THEN << <<"(empty)">> >> ELSE << <<"shm text">> >>
    [] OTHER -> <<>>  \* sync, flush, kill, shmwrite, shm_write, ipcrm: ''

\* the result of a verb of CheckedVerbs when its call reports success: false
FailResult(cmd, args, resp) ==
  CASE cmd = "kill" ->
         << <<"bash: kill: (", Arg(args, 0), ") - ">> \o ErrorOr(resp, "no such process")[1] >>
    [] cmd \in {"shmread", "shm_read"} -> << <<"shmread: ">> \o ErrorOr(resp, "read failed")[1] >>
    [] cmd \in {"shmwrite", "shm_write"} ->
         << <<"shmwrite: ">> \o ErrorOr(resp, "write failed")[1] >>
    [] cmd = "ipcrm" -> << <<"ipcrm: ">> \o ErrorOr(resp, "delete failed")[1] >>
    [] cmd \in {"hexdump", "block", "inode"} -> ErrorOr(resp, "read failed")
    [] cmd \in {"sync", "flush"} -> ErrorOr(resp, "sync failed")
    [] cmd \in {"mkfs", "format"} -> ErrorOr(resp, "format failed")
    [] cmd \in {"nice", "run", "batch", "shmget", "shm_create"} -> ErrorOr(resp, "create failed")
    [] cmd = "sched" -> ErrorOr(resp, "scheduler operation failed")
    [] OTHER -> ErrorOr(resp, "error")

\* the result of a verb of UncheckedVerbs from whatever its call resolved with;
\* a {success: false} response carries none of the data fields
UncheckedResult(cmd, resp) ==
  CASE cmd \in {"df", "disk"} -> Rows(IF resp.status = "ok" THEN "df" ELSE "df-NaN", 9)
    [] cmd \in {"free", "buffer"} ->
         IF resp.status = "ok" THEN Rows("free", 13) ELSE ErrorLine(TypeErrorMessage)
    [] cmd = "ps" ->
         IF resp.items = 0 THEN << <<"(no processes)">> >>
                           ELSE << <<"ps-header">>, <<"ps-rule">> >> \o Rows("ps-row", resp.items)
    [] cmd = "jobs" -> Rows("job", resp.items)
    [] cmd \in {"ipcs", "shm"} ->
         << <<"ipcs-title">>, <<"ipcs-header">> >> \o Rows("segment", resp.items)
           \o << <<"">>, <<"Total: ", ToString(resp.items), " segment(s)">> >>
    [] OTHER ->  \* inodes
         IF resp.status = "ok" /\ resp.items > 0
           THEN << <<"inodes-header">>, <<"inodes-rule">> >> \o Rows("inode-row", resp.items)
                  \o << <<"inodes-rule">>, <<"inodes-total">> >>
           ELSE << <<"no inodes in use">> >>

\* case 'echo' with a redirect that never looks at what readFile returned:
\* it always updates, and appending sends the payload alone
EchoWrite_IgnoresExisting(args, existing) ==
  LET redirectIdx == RedirectIdx(args)
  IN  Call("updateFile", Arg(args, redirectIdx), JoinWords(SubSeq(args, 1, redirectIdx - 1)))

\* case 'echo' with a redirect whose overwrite branch creates the file
\* whether or not it exists
EchoWrite_AlwaysCreates(args, existing) ==
  LET redirectIdx == RedirectIdx(args)
      content == JoinWords(SubSeq(args, 1, redirectIdx - 1))
      filename == Arg(args, redirectIdx)
  IN  IF args[redirectIdx] = ">>"
        THEN Call("updateFile", filename,
                  IF existing.status = "ok" THEN ContentOf(existing) \o content ELSE content)
        ELSE Call("createFile", filename, content)

\* case 'echo' with a redirect, after readFile resolved with `existing`
EchoWrite(args, existing) ==
  LET redirectIdx == RedirectIdx(args)
      content == JoinWords(SubSeq(args, 1, redirectIdx - 1))
      filename == Arg(args, redirectIdx)
      isAppend == args[redirectIdx] = ">>"
  IN  IF isAppend
        THEN Call("updateFile", filename,
                  IF existing.status = "ok" THEN ContentOf(existing) \o content ELSE content)
        ELSE IF existing.status = "ok"
          THEN Call("updateFile", filename, content)
          ELSE Call("createFile", filename, content)

\* a two-call verb after its first call resolved: the second call
SecondCall(cmd, args, first) ==
  CASE cmd = "echo" -> EchoWrite(args, first)
    [] cmd = "dumpe2fs" -> Call("listInodes", "", <<>>)
    [] OTHER -> Call("getProcesses", "", <<>>)  \* top, scheduler

\* a two-call verb after its second call resolved
TwoCallResult(cmd, first, second) ==
  CASE cmd = "echo" ->
         IF second.status = "ok" THEN <<>> ELSE ErrorOr(second, "error")
    [] cmd = "dumpe2fs" -> Rows("dumpe2fs", 27)
    [] OTHER ->  \* top, scheduler: schedData.stats is undefined on {success: false}
         IF first.status = "ok"
           THEN Rows("top", 7) \o Rows("top-row", second.items)
           ELSE ErrorLine(TypeErrorMessage)

\* executeCommand resumed at an await with the call's outcome: h is the
\* suspended handler (verb, args, which await, the first call's response)
Continue(h, resp) ==
  IF resp.status = "reject" THEN Settle(ErrorLine(resp.error))
  ELSE IF h.cmd \in TwoCallVerbs
    THEN IF h.pc = 1 THEN Await(SecondCall(h.cmd, h.args, resp))
                     ELSE Settle(TwoCallResult(h.cmd, h.first, resp))
  ELSE IF h.cmd \in UncheckedVerbs THEN Settle(UncheckedResult(h.cmd, resp))
  ELSE IF resp.status = "ok" THEN Settle(OkResult(h.cmd, h.args, resp))
  ELSE Settle(FailResult(h.cmd, h.args, resp))

(***************************************************************************)
(* Session Persistence                                                     *)
(***************************************************************************)
\* a localStorage item: absent, text that JSON.parse rejects, or a JSON list
Absent == [kind |-> "absent", val |-> <<>>]

Corrupt == [kind |-> "corrupt", val |-> <<>>]

Stored(list) == [kind |-> "list", val |-> list]

\* a localStorage item that is the JSON of a string: val is its characters
Text(chars) == [kind |-> "text", val |-> chars]

\* a JavaScript string seen as what indexing and spreading make of it: one
\* element per character
CharLines(chars) ==
  [i \in 1..Len(chars) |-> [kind |-> "char", sid |-> 0, n |-> i, text |-> <<chars[i]>>]]

CharEntries(chars) ==
  [i \in 1..Len(chars) |-> <<chars[i]>>]

\* loadOutputFromStorage: parsed.slice(-500) of whatever JSON.parse returned
\* (String.prototype.slice gives a string), the banner when there is no item
\* or JSON.parse throws
loadOutputFromStorage(item) ==
  CASE item.kind = "list" -> SliceLast(item.val, OutputCap)
    [] item.kind = "text" -> SliceLast(CharLines(item.val), OutputCap)
    [] OTHER -> WELCOME_MESSAGE

\* loadHistoryFromStorage: whatever JSON.parse returned, [] when there is no
\* item or JSON.parse throws
loadHistoryFromStorage(item) ==
  CASE item.kind = "list" -> item.val
    [] item.kind = "text" -> CharEntries(item.val)
    [] OTHER -> <<>>

\* saveOutputToStorage without its slice(-500)
saveOutputToStorage_NoSlice(item, out, throws) ==
  IF throws THEN item ELSE Stored(out)

\* saveOutputToStorage; a throwing setItem is swallowed and leaves the item as it was
saveOutputToStorage(item, out, throws) ==
  IF throws THEN item ELSE Stored(SliceLast(out, OutputCap))

\* saveHistoryToStorage without its slice(-100)
saveHistoryToStorage_NoSlice(item, hist, throws) ==
  IF throws THEN item ELSE Stored(hist)

\* saveHistoryToStorage; a throwing setItem is swallowed and leaves the item as it was
saveHistoryToStorage(item, hist, throws) ==
  IF throws THEN item ELSE Stored(SliceLast(hist, HistoryCap))

(***************************************************************************)
(* The panel                                                               *)
(***************************************************************************)
\* Enter presses handled since the panel was mounted
Enters == Len(history) - Len(historyAtMount.val)

\* no run of Up/Down presses is in progress
RecallIdle == [phase |-> "idle", saved |-> <<>>, hist |-> <<>>]

\* useState initialisers, then the first render (output.map throws when output
\* is a string) and, when it did not throw, the two persistence effects; a
\* string history goes through slice and JSON.stringify as a string
Mount(itemOut, itemHist, quota) ==
  /\ output = loadOutputFromStorage(itemOut)
  /\ outputIsWelcome = (itemOut.kind \notin {"list", "text"})
  /\ input = <<>>
  /\ history = loadHistoryFromStorage(itemHist)
  /\ historyIndex = -1
  /\ historyAtMount = [isString |-> itemHist.kind = "text", val |-> history]
  /\ quotaExceeded = quota
  /\ crashed = (itemOut.kind = "text")
  /\ storedOutput = IF crashed THEN itemOut ELSE saveOutputToStorage(itemOut, output, quota)
  /\ storedHistory =
       IF crashed \/ (itemHist.kind = "text" /\ quota) THEN itemHist
       ELSE IF itemHist.kind = "text" THEN Text(SliceLast(itemHist.val, HistoryCap))
       ELSE saveHistoryToStorage(itemHist, history, quota)
  /\ inflight = <<>>
  /\ facadeLog = <<>>
  /\ nextSid = 0
  /\ recall = RecallIdle
  /\ mountedFrom = [out |-> itemOut, hist |-> itemHist,
                    banner |-> output = WELCOME_MESSAGE, cursor |-> historyIndex]

\* onChange of the input field: setInput(e.target.value)
TypeInput(line, maxSubmit) ==
  /\ ~crashed
  /\ Enters < maxSubmit
  /\ line # input
  /\ input' = line
  /\ recall' = RecallIdle
  /\ UNCHANGED <<output, outputIsWelcome, history, historyIndex, historyAtMount, mountedFrom,
                 storedOutput, storedHistory, quotaExceeded, inflight, facadeLog, nextSid,
                 crashed, files>>

\* addOutput(lines) whose saving effect writes the storage error into the transcript
AddOutput_ReportsFailure(lines) ==
  /\ output' = output \o lines
                 \o (IF quotaExceeded THEN ResultLines(0, << <<"QuotaExceededError">> >>) ELSE <<>>)
  /\ outputIsWelcome' = FALSE
  /\ storedOutput' = saveOutputToStorage(storedOutput, output', quotaExceeded)

\* addOutput(lines) that puts the lines above the transcript: [...lines, ...prev]
AddOutput_Prepends(lines) ==
  /\ output' = lines \o output
  /\ outputIsWelcome' = FALSE
  /\ storedOutput' = saveOutputToStorage(storedOutput, output', quotaExceeded)

\* addOutput(lines) whose render is not followed by the saving effect
AddOutput_NoSave(lines) ==
  /\ output' = output \o lines
  /\ outputIsWelcome' = FALSE
  /\ storedOutput' = storedOutput

\* addOutput(lines) followed by the render and the effect that saves output
AddOutput(lines) ==
  /\ output' = output \o lines
  /\ outputIsWelcome' = FALSE
  /\ storedOutput' = saveOutputToStorage(storedOutput, output', quotaExceeded)

\* executeCommand(cmdLine) up to its first await or its return, with the
\* render and the output-saving effect that follow the key event
executeCommand(cmdLine) ==
  LET parts == Tokens(cmdLine)
      cmd == ToLowerCase(parts[1])
      args == Tail(parts)
      sid == nextSid + 1
      step == Start(cmd, args, historyAtMount)
  IN  IF parts = <<>>
        THEN UNCHANGED <<output, outputIsWelcome, storedOutput, inflight, facadeLog, nextSid>>
      ELSE IF cmd = "clear"
        THEN /\ output' = WELCOME_MESSAGE
             /\ outputIsWelcome' = TRUE
             /\ storedOutput' = IF outputIsWelcome
                                  THEN Absent
                                  ELSE saveOutputToStorage(Absent, WELCOME_MESSAGE, quotaExceeded)
             /\ nextSid' = sid
             /\ UNCHANGED <<inflight, facadeLog>>
      ELSE /\ nextSid' = sid
           /\ IF step.done
                THEN /\ AddOutput(<<EchoLine(sid, cmdLine)>> \o ResultLines(sid, step.result))
                     /\ UNCHANGED <<inflight, facadeLog>>
                ELSE /\ AddOutput(<<EchoLine(sid, cmdLine)>>)
                     /\ inflight' = Append(inflight,
                          [sid |-> sid, cmd |-> cmd, args |-> args, pc |-> 1,
                           first |-> NoResp, call |-> step.call])
                     /\ facadeLog' = Append(facadeLog, [sid |-> sid, call |-> step.call])

\* setHistory that puts the newest line first: [input, ...prev]
PushHistory_NewestFirst(prev, line) == <<line>> \o prev

\* setHistory that forgets the earlier entries when the verb is 'clear'
PushHistory_ClearWipes(prev, line) ==
  IF Tokens(line) # <<>> /\ ToLowerCase(Tokens(line)[1]) = "clear" THEN <<>> ELSE Append(prev, line)

\* setHistory that skips a line whose verb is 'clear'
PushHistory_SkipClear(prev, line) ==
  IF Tokens(line) # <<>> /\ ToLowerCase(Tokens(line)[1]) = "clear" THEN prev ELSE Append(prev, line)

\* setHistory(prev => [...prev, input])
PushHistory(prev, line) == Append(prev, line)

\* handleKeyDown, e.key === 'Enter'
Enter(maxSubmit) ==
  /\ ~crashed
  /\ Enters < maxSubmit
  /\ executeCommand(input)
  /\ history' = PushHistory(history, input)
  /\ historyIndex' = -1
  /\ input' = <<>>
  /\ storedHistory' = saveHistoryToStorage(storedHistory, history', quotaExceeded)
  /\ recall' = RecallIdle
  /\ UNCHANGED <<historyAtMount, mountedFrom, quotaExceeded, crashed, files>>

\* history[newIndex] read one entry too low
At_OffByOne(list, i) ==
  IF i >= 1 /\ i <= Len(list) THEN list[i] ELSE <<"undefined">>

\* history[i] for a 0-based i, undefined outside the array
At(list, i) ==
  IF i >= 0 /\ i < Len(list) THEN list[i + 1] ELSE <<"undefined">>

\* ArrowUp without Math.max(0, ...)
UpIndex_NoClamp(index, length) ==
  IF index = -1 THEN length - 1 ELSE index - 1

\* ArrowUp: historyIndex === -1 ? history.length - 1 : Math.max(0, historyIndex - 1)
UpIndex(index, length) ==
  IF index = -1 THEN length - 1
  ELSE IF index - 1 > 0 THEN index - 1 ELSE 0

\* ArrowDown with  newIndex > history.length  for  newIndex >= history.length
DownIndex_OnePastEnd(index, length) ==
  IF index + 1 > length THEN -1 ELSE index + 1

\* ArrowDown: historyIndex + 1, or -1 when that is past the last entry
DownIndex(index, length) ==
  IF index + 1 >= length THEN -1 ELSE index + 1

\* handleKeyDown, e.key === 'ArrowUp'
ArrowUp(maxSubmit) ==
  /\ ~crashed
  /\ Enters < maxSubmit
  /\ IF Len(history) > 0
       THEN /\ historyIndex' = UpIndex(historyIndex, Len(history))
            /\ input' = At(history, historyIndex')
            /\ recall' = IF historyIndex = -1
                           THEN [phase |-> "up", saved |-> input, hist |-> history]
                           ELSE IF recall.phase = "up" THEN recall ELSE RecallIdle
       ELSE UNCHANGED <<historyIndex, input, recall>>
  /\ UNCHANGED <<output, outputIsWelcome, history, historyAtMount, mountedFrom,
                 storedOutput, storedHistory, quotaExceeded, inflight, facadeLog, nextSid,
                 crashed, files>>

\* handleKeyDown, e.key === 'ArrowDown'
ArrowDown(maxSubmit) ==
  /\ ~crashed
  /\ Enters < maxSubmit
  /\ IF historyIndex >= 0
       THEN /\ historyIndex' = DownIndex(historyIndex, Len(history))
            /\ input' = IF historyIndex' = -1 THEN <<>> ELSE At(history, historyIndex')
            /\ recall' = IF historyIndex' # -1
                              /\ (recall.phase = "down"
                                    \/ (recall.phase = "up" /\ historyIndex = 0))
                           THEN [recall EXCEPT !.phase = "down"]
                           ELSE RecallIdle
       ELSE UNCHANGED <<historyIndex, input, recall>>
  /\ UNCHANGED <<output, outputIsWelcome, history, historyAtMount, mountedFrom,
                 storedOutput, storedHistory, quotaExceeded, inflight, facadeLog, nextSid,
                 crashed, files>>

\* onClick of the header button: setOutput([])
ClearButton(maxSubmit) ==
  /\ ~crashed
  /\ Enters < maxSubmit
  /\ output' = <<>>
  /\ outputIsWelcome' = FALSE
  /\ storedOutput' = saveOutputToStorage(storedOutput, output', quotaExceeded)
  /\ UNCHANGED <<input, history, historyIndex, historyAtMount, mountedFrom, storedHistory,
                 quotaExceeded, inflight, facadeLog, nextSid, crashed, files, recall>>

\* the service answers the call of the i-th suspended handler with resp; the
\* handler is resumed with it and runs to its next await or to the end of
\* executeCommand
Respond(i, resp) ==
  LET h == inflight[i]
      step == Continue(h, resp)
      rest == [j \in 1..(Len(inflight) - 1) |-> IF j < i THEN inflight[j] ELSE inflight[j + 1]]
  IN  /\ ~crashed
      /\ resp \in Outcomes(h.call, files)
      /\ files' = Serve(h.call, resp, files)
      /\ IF step.done
           THEN /\ inflight' = rest
                /\ UNCHANGED facadeLog
                /\ IF step.result # <<>>
                     THEN AddOutput(ResultLines(h.sid, step.result))
                     ELSE UNCHANGED <<output, outputIsWelcome, storedOutput>>
           ELSE /\ inflight' = [inflight EXCEPT ![i] =
                                  [h EXCEPT !.pc = 2, !.first = resp, !.call = step.call]]
                /\ facadeLog' = Append(facadeLog, [sid |-> h.sid, call |-> step.call])
                /\ UNCHANGED <<output, outputIsWelcome, storedOutput>>
      /\ UNCHANGED <<input, history, historyIndex, historyAtMount, mountedFrom, storedHistory,
                     quotaExceeded, nextSid, crashed, recall>>

\* every response the service may give to the i-th suspended handler
Answers(i) == Outcomes(inflight[i].call, files)

(***************************************************************************)
(* Specification of the shell session                                      *)
(***************************************************************************)
\* the lines typed in a session
Lines ==
  { <<" ">>, <<" ", "LS", " ">>, <<"frobnicate">>, <<"clear">>, <<"cat">>,
    <<"echo", " ", "a", " ", ">>", " ", "f">> }

\* what an earlier session may have left under 'terminal_output'
OutputSnapshots == {Absent, Corrupt, Stored([i \in 1..2 |-> OldLine(i)]), Text(<<"l", "s">>)}

\* what an earlier session may have left under 'terminal_history'
HistorySnapshots == {Absent, Corrupt, Stored(<< <<"ls">> >>), Text(<<"l", "s">>)}

Init ==
  /\ \E itemOut \in OutputSnapshots, itemHist \in HistorySnapshots, quota \in BOOLEAN :
       Mount(itemOut, itemHist, quota)
  /\ files \in FileStores

Next ==
  \/ \E line \in Lines : TypeInput(line, MaxSubmit)
  \/ Enter(MaxSubmit)
  \/ ArrowUp(MaxSubmit)
  \/ ArrowDown(MaxSubmit)
  \/ ClearButton(MaxSubmit)
  \/ \E i \in 1..Len(inflight) : \E resp \in Answers(i) : Respond(i, resp)

Spec == Init /\ [][Next]_vars

(***************************************************************************)
(* Specification of one submission of every verb                           *)
(***************************************************************************)
\* the raw line whose words are separated by single spaces
Line(words) ==
  [i \in 1..(2 * Len(words) - 1) |-> IF i % 2 = 1 THEN words[(i + 1) \div 2] ELSE " "]

\* every case label of the switch alone on the line
BareVerbs ==
  { <<v>> : v \in RegistryVerbs \cup {"frobnicate", "Frobnicate"} }

\* verbs with the arguments their handlers read
VerbsWithArgs ==
  { <<"cat", "f">>, <<"touch", "f">>, <<"touch", "f", "a", "b">>, <<"rm", "f">>,
    <<"mkdir", "d">>, <<"cd", "d">>, <<"stat", "f">>, <<"info", "f">>,
    <<"write", "f">>, <<"write", "f", "a", "b">>, <<"open", "f">>, <<"close", "f">>,
    <<"hexdump", "35">>, <<"block", "35">>, <<"inode", "0">>, <<"kill", "7">>,
    <<"nice", "task1">>, <<"run", "task1", "5">>, <<"batch", "2">>,
    <<"sched", "START">>, <<"sched", "stop">>, <<"sched", "pause">>, <<"sched", "resume">>,
    <<"sched", "quantum">>, <<"sched", "quantum", "200">>, <<"sched", "bogus">>,
    <<"shmget", "64">>, <<"shm_create", "64">>, <<"shmread", "1">>, <<"shm_read", "1">>,
    <<"shmwrite", "1">>, <<"shmwrite", "1", "a">>, <<"shm_write", "1", "a">>,
    <<"ipcrm", "1">>, <<"mkfs", "--force">>, <<"format", "-f">>, <<"mkfs", "now">>,
    <<"echo", "a">>, <<"echo", "a", ">", "f">>, <<"echo", "a", "b", ">>", "f">>,
    <<"echo", "a", ">">>, <<"echo", ">>">>,
    <<"echo", "a", ">", "f", "g">>, <<"echo", "a", ">", "f", ">>", "g">>,
    <<"echo", "a", "b", ">>", "f", ">", "g">>,
    <<"touch", "f", ">", "g">>, <<"write", "f", "a", ">", "b">>, <<"cat", "f", ">>", "g">> }

VerbLines == { Line(w) : w \in BareVerbs \cup VerbsWithArgs }

InitVerbs ==
  /\ \E quota \in BOOLEAN : Mount(Absent, Absent, quota)
  /\ files \in FileStores

NextVerbs ==
  \/ \E line \in VerbLines : TypeInput(line, MaxSubmitVerbs)
  \/ Enter(MaxSubmitVerbs)
  \/ \E i \in 1..Len(inflight) : \E resp \in Answers(i) : Respond(i, resp)

SpecVerbs == InitVerbs /\ [][NextVerbs]_vars

(***************************************************************************)
(* Specification of a session that starts from full snapshots              *)
(***************************************************************************)
\* a raw line submitted in an earlier session
OldEntry(i) == <<"echo", " ", ToString(i)>>

\* 'terminal_output' as an earlier session left it: OutputCap lines or a few less
FullOutputSnapshots ==
  { Stored([i \in 1..(OutputCap - k) |-> OldLine(i)]) : k \in 0..MaxOver }

\* 'terminal_history' as an earlier session left it: HistoryCap entries or a few less
FullHistorySnapshots ==
  { Stored([i \in 1..(HistoryCap - k) |-> OldEntry(i)]) : k \in 0..MaxOver }

BoundLines == { <<" ", "LS", " ">>, <<"frobnicate">>, <<"clear">>, <<>> }

InitBound ==
  /\ \E itemOut \in FullOutputSnapshots, itemHist \in FullHistorySnapshots, quota \in BOOLEAN :
       Mount(itemOut, itemHist, quota)
  /\ files \in FileStores

NextBound ==
  \/ \E line \in BoundLines : TypeInput(line, MaxSubmitBound)
  \/ Enter(MaxSubmitBound)
  \/ ClearButton(MaxSubmitBound)
  \/ \E i \in 1..Len(inflight) : \E resp \in Answers(i) : Respond(i, resp)

SpecBound == InitBound /\ [][NextBound]_vars

(***************************************************************************)
(* Specification of a session of recall over a restored History            *)
(***************************************************************************)
\* 'terminal_history' as an earlier session left it: up to MaxEntries lines
RecallHistories ==
  {Absent} \cup { Stored([i \in 1..n |-> OldEntry(i)]) : n \in 0..MaxEntries }

\* the lines typed during recall: a command that calls the facade, text, clear
RecallLines == { <<"ls">>, <<"x", " ", "y">>, <<"clear">> }

InitRecall ==
  /\ \E itemHist \in RecallHistories, quota \in BOOLEAN : Mount(Absent, itemHist, quota)
  /\ files \in FileStores

NextRecall ==
  \/ \E line \in RecallLines : TypeInput(line, MaxSubmitRecall)
  \/ Enter(MaxSubmitRecall)
  \/ ArrowUp(MaxSubmitRecall)
  \/ ArrowDown(MaxSubmitRecall)
  \/ \E i \in 1..Len(inflight) : \E resp \in Answers(i) : Respond(i, resp)

SpecRecall == InitRecall /\ [][NextRecall]_vars

(***************************************************************************)
(* Specification of two commands submitted one after the other, the second *)
(* possibly while the first is suspended at an await                       *)
(***************************************************************************)
\* localStorage.setItem starts or stops throwing: the origin's quota is
\* reached or room is made
QuotaChange(maxSubmit) ==
  /\ ~crashed
  /\ Enters < maxSubmit
  /\ quotaExceeded' = ~quotaExceeded
  /\ UNCHANGED <<output, outputIsWelcome, input, history, historyIndex, historyAtMount,
                 storedOutput, storedHistory, inflight, facadeLog, nextSid, crashed, files,
                 recall, mountedFrom>>

\* the lines typed: a listing, two appends to the same file, a verb without
\* its argument, the two verbs that touch no service
PairLines ==
  { Line(<<"ls">>), Line(<<"echo", "P1", ">>", "f">>), Line(<<"echo", "P2", ">>", "f">>),
    Line(<<"cat">>), Line(<<"clear">>), Line(<<"history">>) }

\* 'terminal_history' as an earlier session left it
PairHistories == {Absent, Stored(<<OldEntry(1)>>)}

InitPair ==
  /\ \E itemHist \in PairHistories, quota \in BOOLEAN : Mount(Absent, itemHist, quota)
  /\ files \in FileStores

NextPair ==
  \/ \E line \in PairLines : TypeInput(line, MaxSubmitPair)
  \/ Enter(MaxSubmitPair)
  \/ ClearButton(MaxSubmitPair)
  \/ QuotaChange(MaxSubmitPair)
  \/ \E i \in 1..Len(inflight) : \E resp \in Answers(i) : Respond(i, resp)

SpecPair == InitPair /\ [][NextPair]_vars

(***************************************************************************)
(* Properties                                                              *)
(***************************************************************************)
\* the verb of a raw line that is not blank
Verb(line) == ToLowerCase(Tokens(line)[1])

\* the bounds on the number of Enter presses of the specifications
SubmitBounds ==
  {MaxSubmit, MaxSubmitVerbs, MaxSubmitBound, MaxSubmitRecall, MaxSubmitPair}

\* a step that is a press of Enter
EnterKey == \E m \in SubmitBounds : Enter(m)

\* a step that is the submission of a non-blank line
Submission == EnterKey /\ Tokens(input) # <<>>

\* the lines of the transcript that submission sid produced, in display order
LinesOf(out, sid) == SelectSeq(out, LAMBDA l : l.sid = sid)

\* the facade calls that submission sid issued, in order
CallsOf(log, sid) == SelectSeq(log, LAMBDA c : c.sid = sid)

\* C1 as stated: in every reachable state the in-memory Scrollback holds at
\* most 500 lines.
C1_ScrollbackAtMost500 == Len(output) <= 500

\* C1 amended: the 500-line bound holds for the persisted Scrollback snapshot.
\* The snapshot never holds more than 500 lines, and whenever the store accepts
\* writes it holds min(N, 500) lines, which are the most recent lines of the
\* N-line Scrollback in their original order (only the oldest are left out).
C1_SnapshotIsLast500 ==
  storedOutput.kind = "list" =>
    /\ Len(storedOutput.val) <= 500
    /\ ~quotaExceeded =>
         /\ Len(storedOutput.val) = IF Len(output) < 500 THEN Len(output) ELSE 500
         /\ \A i \in 1..Len(storedOutput.val) :
              storedOutput.val[i] = output[Len(output) - Len(storedOutput.val) + i]

\* C1 witness: the Scrollback has outgrown 500 lines by a handler's output and
\* the snapshot written after it holds exactly the 500 most recent lines
C1_Witness ==
  /\ ~quotaExceeded
  /\ Len(output) > 500
  /\ output[Len(output)].kind = "out"
  /\ storedOutput.kind = "list"
  /\ Len(storedOutput.val) = 500
  /\ storedOutput.val[500] = output[Len(output)]
  /\ storedOutput.val[1] = output[Len(output) - 499]

\* C2 as stated: in every reachable state the in-memory History holds at most
\* 100 entries.
C2_HistoryAtMost100 == Len(history) <= 100

\* C2 amended: the 100-entry bound holds for the persisted History snapshot.
\* The snapshot never holds more than 100 entries, and whenever the store
\* accepts writes it holds min(N, 100) entries, which are the most recent
\* entries of the N-entry History in submission order.
C2_SnapshotIsLast100 ==
  storedHistory.kind = "list" =>
    /\ Len(storedHistory.val) <= 100
    /\ ~quotaExceeded =>
         /\ Len(storedHistory.val) = IF Len(history) < 100 THEN Len(history) ELSE 100
         /\ \A i \in 1..Len(storedHistory.val) :
              storedHistory.val[i] = history[Len(history) - Len(storedHistory.val) + i]

\* C2 witness: more than 100 entries in History after a submission of this
\* session, and the snapshot holds exactly the 100 most recent
C2_Witness ==
  /\ ~quotaExceeded
  /\ Len(history) > 100
  /\ nextSid > 0
  /\ storedHistory.kind = "list"
  /\ Len(storedHistory.val) = 100
  /\ storedHistory.val[100] = history[Len(history)]
  /\ storedHistory.val[1] = history[Len(history) - 99]

\* C3 as stated: pressing Enter on an empty or whitespace-only input line
\* changes neither Scrollback nor History and issues no facade call.
C3_BlankEnterIsNoOp ==
  [][(EnterKey /\ Tokens(input) = <<>>) => UNCHANGED <<output, history, facadeLog>>]_vars

\* the submission step appends the echo line of the raw input to Scrollback:
\* the prompt followed by the line as typed, once, ahead of everything else
\* the command produces
EchoAppended ==
  /\ Len(output') > Len(output)
  /\ SubSeq(output', 1, Len(output)) = output
  /\ output'[Len(output) + 1].kind = "echo"
  /\ output'[Len(output) + 1].text = <<"root@osfs:~$ ">> \o input
  /\ \A j \in (Len(output) + 2)..Len(output') :
       /\ output'[j].kind = "out"
       /\ output'[j].sid = output'[Len(output) + 1].sid
  /\ CallsOf(facadeLog, output'[Len(output) + 1].sid) = <<>>
  /\ LinesOf(output, output'[Len(output) + 1].sid) = <<>>

\* C4 as stated: every submission of a non-blank line, whatever its verb,
\* appends exactly one echo line to Scrollback before any facade call and any
\* output line of that command.
C4_EchoForEveryVerb ==
  [][Submission => EchoAppended]_vars

\* C4 amended: every submission of a non-blank line whose verb is not clear
\* appends exactly one echo line (prompt plus raw input) to Scrollback in the
\* submission step, before any facade call and any output line of that
\* command; a submission of clear leaves no echo line: Scrollback becomes the
\* welcome banner.
C4_EchoUnlessClear ==
  [][Submission =>
       IF Verb(input) = "clear"
         THEN \A j \in 1..Len(output') : output'[j].kind = "banner"
         ELSE EchoAppended]_vars

\* C4 witness: a command is suspended at its facade call, and its echo line,
\* carrying the raw line with its surrounding blanks, is the last line of
\* Scrollback
C4_Witness ==
  /\ Len(inflight) = 1
  /\ CallsOf(facadeLog, inflight[1].sid) # <<>>
  /\ Len(output) > 0
  /\ output[Len(output)].kind = "echo"
  /\ output[Len(output)].sid = inflight[1].sid
  /\ output[Len(output)].text = <<"root@osfs:~$ ", " ", "LS", " ">>

\* C5: every submission of a non-blank line appends exactly one History entry
\* equal to the raw line, resets the recall cursor to -1 and clears the input
\* line, whatever the outcome of the command.
C5_HistoryGetsRawLine ==
  [][Submission =>
       /\ Len(history') = Len(history) + 1
       /\ SubSeq(history', 1, Len(history)) = history
       /\ history'[Len(history')] = input
       /\ historyIndex' = -1
       /\ input' = <<>>]_vars

\* C5 witness: a command that ended in the catch block has its raw line, blanks
\* included, as the newest History entry, the cursor is -1 and the input empty
C5_Witness ==
  /\ nextSid = 1
  /\ inflight = <<>>
  /\ output # <<>>
  /\ output[Len(output)].text = <<"error: ", "Failed to fetch">>
  /\ history # <<>>
  /\ history[Len(history)] = <<" ", "LS", " ">>
  /\ historyIndex = -1
  /\ input = <<>>

\* C6: submitting a line whose lower-cased verb is no case label appends the
\* echo line and exactly two output lines, the not-found line naming the verb
\* and the hint, and issues no facade call.
C6_UnknownVerbTwoLines ==
  [][(Submission /\ Verb(input) \notin RegistryVerbs) =>
       /\ Len(output') = Len(output) + 3
       /\ SubSeq(output', 1, Len(output)) = output
       /\ output'[Len(output) + 1].kind = "echo"
       /\ output'[Len(output) + 2].kind = "out"
       /\ output'[Len(output) + 2].text = <<"command not found: ", Verb(input)>>
       /\ output'[Len(output) + 3].kind = "out"
       /\ output'[Len(output) + 3].text = <<"type 'help' for the commands">>
       /\ facadeLog' = facadeLog
       /\ inflight' = inflight]_vars

\* C6 witness: Frobnicate was submitted; the two lines follow its echo line,
\* the verb is named in lower case and no facade call was made
C6_Witness ==
  /\ Len(output) >= 3
  /\ output[Len(output) - 2].text = <<"root@osfs:~$ ", "Frobnicate">>
  /\ output[Len(output) - 1].text = <<"command not found: ", "frobnicate">>
  /\ output[Len(output)].text = <<"type 'help' for the commands">>
  /\ facadeLog = <<>>
  /\ inflight = <<>>

\* the verbs of claim C7 submitted without their required argument(s)
C7_MissingArgs(line) ==
  LET cmd == Verb(line)
      args == Tail(Tokens(line))
  IN  \/ /\ cmd \in {"cat", "touch", "rm", "mkdir", "cd", "stat", "info", "open", "close",
                     "hexdump", "block", "inode", "kill", "nice", "run", "sched",
                     "shmread", "ipcrm"}
         /\ args = <<>>
      \/ /\ cmd \in {"write", "shmwrite"}
         /\ Len(args) < 2
      \/ /\ cmd = "sched"
         /\ args = <<"quantum">>

\* the verbs whose usage text is two lines: the usage and a hint or an example
C7_TwoLineUsage(line) ==
  /\ Verb(line) \in {"rm", "cd", "hexdump", "block", "inode", "nice", "run", "sched"}
  /\ Tail(Tokens(line)) = <<>>

\* C7 as stated: a verb that requires arguments, submitted without them,
\* issues no facade call and appends exactly one output line.
C7_UsageIsOneLine ==
  [][(Submission /\ C7_MissingArgs(input)) =>
       /\ facadeLog' = facadeLog
       /\ inflight' = inflight
       /\ Len(output') = Len(output) + 2]_vars

\* C7 amended: a verb that requires arguments, submitted without them, issues
\* no facade call and appends its usage text after the echo line: one usage
\* line, followed by one hint or example line for rm, cd, hexdump/block, inode,
\* nice/run and sched (without a subcommand).
C7_UsageText ==
  [][(Submission /\ C7_MissingArgs(input)) =>
       /\ facadeLog' = facadeLog
       /\ inflight' = inflight
       /\ Len(output') = Len(output) + (IF C7_TwoLineUsage(input) THEN 3 ELSE 2)
       /\ SubSeq(output', 1, Len(output)) = output
       /\ output'[Len(output) + 1].kind = "echo"
       /\ output'[Len(output) + 2].kind = "out"
       /\ output'[Len(output) + 2].text[1] = "usage: "
       /\ C7_TwoLineUsage(input) =>
            /\ output'[Len(output) + 3].kind = "out"
            /\ output'[Len(output) + 3].text[1] # "usage: "]_vars

\* C7 witness: rm was submitted alone; its usage line and its hint line end
\* Scrollback and no facade call was made
C7_Witness ==
  /\ Len(output) >= 3
  /\ output[Len(output) - 2].text = <<"root@osfs:~$ ", "rm">>
  /\ output[Len(output) - 1].text[1] = "usage: "
  /\ output[Len(output)].text = <<"hint: a directory must be empty">>
  /\ facadeLog = <<>>
  /\ inflight = <<>>

\* C8 as stated, for the verbs it names: when the facade call of df, free, ps,
\* top, ipcs or kill resolves with success: false and an error message, the
\* shell appends exactly one output line, which carries that message, and
\* issues no further call.
C8_FailureIsOneMessageLine ==
  [][\A i \in 1..Len(inflight), resp \in Responses :
       (/\ inflight[i].cmd \in {"df", "free", "ps", "top", "ipcs", "kill"}
        /\ resp.status = "fail"
        /\ resp.error # ""
        /\ Respond(i, resp))
       => /\ Len(output') = Len(output) + 1
          /\ output'[Len(output')].text[Len(output'[Len(output')].text)] = resp.error
          /\ facadeLog' = facadeLog]_vars

\* C9: when a facade call of a handler rejects, at its first or at its second
\* await, the handler ends: exactly one line "error: <message>" of that
\* command is appended at the end of Scrollback, no further facade call is
\* issued for it, and the input line, History and the cursor are untouched.
C9_RejectionIsOneErrorLine ==
  [][\A i \in 1..Len(inflight), resp \in Responses :
       (resp.status = "reject" /\ Respond(i, resp))
       => /\ Len(output') = Len(output) + 1
          /\ SubSeq(output', 1, Len(output)) = output
          /\ output'[Len(output')].kind = "out"
          /\ output'[Len(output')].sid = inflight[i].sid
          /\ output'[Len(output')].text = <<"error: ", resp.error>>
          /\ facadeLog' = facadeLog
          /\ Len(inflight') = Len(inflight) - 1
          /\ \A j \in 1..Len(inflight') : inflight'[j].sid # inflight[i].sid
          /\ UNCHANGED <<input, history, historyIndex>>]_vars

\* C9 witness: a command issued two facade calls, the second one rejected, and
\* the error line is the last line of Scrollback, below the command's echo line
C9_Witness ==
  /\ inflight = <<>>
  /\ nextSid = 1
  /\ Len(CallsOf(facadeLog, 1)) = 2
  /\ Len(LinesOf(output, 1)) = 2
  /\ LinesOf(output, 1)[1].kind = "echo"
  /\ LinesOf(output, 1)[2] = output[Len(output)]
  /\ output[Len(output)].text = <<"error: ", "Failed to fetch">>

\* C10 as stated: after clear is submitted and its persistence side effects
\* have run, Scrollback is exactly the welcome banner and the persisted
\* scrollback key is absent from the store.
C10_ClearPurgesSnapshot ==
  [][(Submission /\ Verb(input) = "clear") =>
       /\ Len(output') = 29
       /\ \A j \in 1..Len(output') : output'[j].kind = "banner"
       /\ storedOutput'.kind = "absent"]_vars

\* a step that is a press of the Up arrow
ArrowUpKey == \E m \in SubmitBounds : ArrowUp(m)

\* a step that is a press of the Down arrow
ArrowDownKey == \E m \in SubmitBounds : ArrowDown(m)

\* C11 as stated: a submission of clear leaves the History sequence and the
\* stored history snapshot as they were before it.
C11_ClearLeavesHistoryAlone ==
  [][(Submission /\ Verb(input) = "clear") => UNCHANGED <<history, storedHistory>>]_vars

\* C11 amended: a submission of clear erases nothing of History or of its
\* snapshot: every earlier entry stays in place, the raw line is added as the
\* newest entry, and the snapshot is rewritten with the last 100 entries of the
\* new History (it stays as it was when the store rejects the write).
C11_ClearKeepsEarlierHistory ==
  [][(Submission /\ Verb(input) = "clear") =>
       /\ history' = history \o <<input>>
       /\ storedHistory' = IF quotaExceeded
                              THEN storedHistory
                              ELSE Stored(SliceLast(history', 100))]_vars

\* C11 witness: clear was submitted after another line; Scrollback is the
\* banner, both lines are in History and in its snapshot
C11_Witness ==
  /\ outputIsWelcome
  /\ Len(history) >= 2
  /\ history[Len(history)] = <<"clear">>
  /\ history[Len(history) - 1] = <<"ls">>
  /\ storedHistory = Stored(history)

\* C12: a press of Up with cursor -1 and a non-empty History moves the cursor
\* to length-1 and loads the most recent entry; with cursor > 0 it decrements
\* the cursor and loads that entry; with cursor 0 the cursor stays 0; with an
\* empty History it changes neither the cursor nor the input line.
C12_UpTransitions ==
  [][ArrowUpKey =>
       /\ (historyIndex = -1 /\ Len(history) > 0) =>
            (historyIndex' = Len(history) - 1 /\ input' = history[Len(history)])
       /\ historyIndex > 0 =>
            (historyIndex' = historyIndex - 1 /\ input' = history[historyIndex])
       /\ historyIndex = 0 => historyIndex' = 0
       /\ Len(history) = 0 => UNCHANGED <<historyIndex, input>>]_vars

\* C12 witness: Up was pressed from cursor -1 until the oldest of at least two
\* entries was loaded
C12_Witness ==
  /\ recall.phase = "up"
  /\ Len(history) >= 2
  /\ historyIndex = 0
  /\ input = history[1]
  /\ input # history[2]

\* C13: a press of Down with 0 <= cursor < length-1 increments the cursor and
\* loads that entry; with cursor = length-1 it resets the cursor to -1 and
\* clears the input line; with cursor -1 it changes neither.
C13_DownTransitions ==
  [][ArrowDownKey =>
       /\ (0 <= historyIndex /\ historyIndex < Len(history) - 1) =>
            (historyIndex' = historyIndex + 1 /\ input' = history[historyIndex + 2])
       /\ (historyIndex >= 0 /\ historyIndex = Len(history) - 1) =>
            (historyIndex' = -1 /\ input' = <<>>)
       /\ historyIndex = -1 => UNCHANGED <<historyIndex, input>>]_vars

\* C13 witness: after Up to the oldest entry, Down has loaded the entry after it
C13_Witness ==
  /\ recall.phase = "down"
  /\ historyIndex = 1
  /\ Len(history) >= 2
  /\ input = history[2]
  /\ input # history[1]

\* C14: in every reachable state the cursor is -1 or an index of History, and
\* every press of Up or Down that leaves the cursor other than -1 leaves the
\* input line equal to the entry at the cursor.
C14_CursorInHistory ==
  /\ [](historyIndex = -1 \/ (0 <= historyIndex /\ historyIndex < Len(history)))
  /\ [][((ArrowUpKey \/ ArrowDownKey) /\ historyIndex' # -1) =>
          input' = history'[historyIndex' + 1]]_vars

\* C14 witness: while a command is suspended at its facade call, a Down press
\* has put the cursor on the newest entry, which is in the input line
C14_Witness ==
  /\ inflight # <<>>
  /\ recall.phase = "down"
  /\ historyIndex = Len(history) - 1
  /\ input = history[Len(history)]

\* C15: a run of Up presses from cursor -1 to the oldest entry followed by a
\* run of Down presses back to cursor -1 ends with the input line it started
\* from and with History as it was.
C15_RecallRoundTrip ==
  [][(/\ ArrowDownKey
      /\ historyIndex >= 0
      /\ historyIndex' = -1
      /\ recall.phase = "down" \/ (recall.phase = "up" /\ historyIndex = 0)) =>
       (input' = recall.saved /\ history' = recall.hist)]_vars

\* the handler of an echo line with a redirect operator op and a target
RedirectsWith(h, op) ==
  /\ h.cmd = "echo"
  /\ RedirectIdx(h.args) > 0
  /\ h.args[RedirectIdx(h.args)] = op

\* the target token of a redirecting echo handler: the one after the operator
TargetOf(h) == h.args[RedirectIdx(h.args) + 1]

\* the payload of a redirecting echo handler: the tokens before the operator
\* on one line, separated by single spaces
PayloadOf(h) == << SubSeq(h.args, 1, RedirectIdx(h.args) - 1) >>

\* the create file and update file calls among calls
Writes(calls) == SelectSeq(calls, LAMBDA c : c.call.op \in {"createFile", "updateFile"})

MissingTarget(line) ==
  /\ Verb(line) = "echo"
  /\ \E i \in 2..Len(Tokens(line)) :
       /\ Tokens(line)[i] \in {">", ">>"}
       /\ \A j \in 2..(i - 1) : Tokens(line)[j] \notin {">", ">>"}
       /\ i = Len(Tokens(line))

\* C18: submitting an echo line whose first redirect operator has no token
\* after it appends the syntax-error line after the echo line and issues no
\* facade call.
C18_RedirectWithoutTarget ==
  [][(Submission /\ MissingTarget(input)) =>
       /\ UNCHANGED <<facadeLog, inflight, files>>
       /\ Len(output') = Len(output) + 2
       /\ SubSeq(output', 1, Len(output)) = output
       /\ output'[Len(output) + 1].text = <<"root@osfs:~$ ">> \o input
       /\ output'[Len(output) + 2].text =
            <<"bash: syntax error near unexpected token `newline'">>]_vars

\* C18 witness: echo a > was submitted; the syntax-error line is the last line
\* of Scrollback and no call was issued
C18_Witness ==
  /\ history # <<>>
  /\ history[Len(history)] = <<"echo", " ", "a", " ", ">">>
  /\ facadeLog = <<>>
  /\ inflight = <<>>
  /\ output[Len(output)].text = <<"bash: syntax error near unexpected token `newline'">>

\* C19: when the stored scrollback item is absent, unparseable or parseable
\* but no list, Scrollback starts as the welcome banner; when the stored
\* history item is one of these, History starts empty; the cursor starts at -1
\* and the mount does not fail.
C19_FallbackAtInit ==
  /\ ~crashed
  /\ mountedFrom.out.kind # "list" => mountedFrom.banner
  /\ mountedFrom.hist.kind # "list" => historyAtMount.val = <<>>
  /\ mountedFrom.cursor = -1

\* snap holds the last min(Len(seq), cap) elements of seq, in order
IsLastOf(snap, seq, cap) ==
  /\ Len(snap) = IF Len(seq) < cap THEN Len(seq) ELSE cap
  /\ \A i \in 1..Len(snap) : snap[i] = seq[Len(seq) - Len(snap) + i]

\* C20: when the store accepts writes, every step that changes Scrollback
\* leaves a scrollback snapshot that is the list of its last min(n, 500) lines,
\* every step that changes History leaves a history snapshot that is the list
\* of its last min(m, 100) entries, and loading the snapshots gives exactly
\* those sequences back.
C20_SnapshotsFollowMutations ==
  [][~quotaExceeded =>
       /\ output' # output =>
            /\ storedOutput'.kind = "list"
            /\ IsLastOf(storedOutput'.val, output', 500)
            /\ IsLastOf(loadOutputFromStorage(storedOutput'), output', 500)
       /\ history' # history =>
            /\ storedHistory'.kind = "list"
            /\ IsLastOf(storedHistory'.val, history', 100)
            /\ IsLastOf(loadHistoryFromStorage(storedHistory'), history', 100)]_vars

\* C20 witness: a submission has taken Scrollback past 500 lines and History
\* past 100 entries; loading the snapshots gives their last 500 and 100
C20_Witness ==
  /\ ~quotaExceeded
  /\ inflight = <<>>
  /\ Len(output) > 500
  /\ Len(history) > 100
  /\ Len(loadOutputFromStorage(storedOutput)) = 500
  /\ loadOutputFromStorage(storedOutput)[500] = output[Len(output)]
  /\ Len(loadHistoryFromStorage(storedHistory)) = 100
  /\ loadHistoryFromStorage(storedHistory)[100] = history[Len(history)]

\* a step that is a press of the header's clear button
ClearButtonKey == \E m \in SubmitBounds : ClearButton(m)

\* the lines a step appended to Scrollback, <<>> when it did not extend it
Appended ==
  IF Len(output') >= Len(output) /\ SubSeq(output', 1, Len(output)) = output
    THEN SubSeq(output', Len(output) + 1, Len(output'))
    ELSE <<>>

\* C21: a failing persistence write is swallowed. Scrollback, History and the
\* recall cursor after a step are what the step's command makes of them,
\* whether the store accepts writes or throws: Enter appends the raw line to
\* History, resets the cursor, and (for a non-blank line) numbers the
\* submission and appends its echo line and, when it settles at once, its
\* result; a response appends the handler's result and nothing else; the
\* clear button empties Scrollback; but for the banner that clear restores,
\* every appended line is a command's echo or output line. While the store
\* throws, a step leaves both snapshots as they were (clear removes the
\* scrollback snapshot).
C21_FailedWriteIsSilent ==
  [][/\ quotaExceeded =>
          /\ storedHistory' = storedHistory
          /\ storedOutput' = IF Submission /\ Verb(input) = "clear" THEN Absent ELSE storedOutput
     /\ EnterKey =>
          /\ history' = Append(history, input)
          /\ historyIndex' = -1
          /\ input' = <<>>
          /\ Tokens(input) = <<>> => output' = output /\ nextSid' = nextSid
     /\ Submission =>
          LET sid == nextSid + 1
              step == Start(Verb(input), Tail(Tokens(input)), historyAtMount)
          IN  /\ nextSid' = sid
              /\ IF Verb(input) = "clear"
                   THEN output' = WELCOME_MESSAGE /\ inflight' = inflight
                   ELSE /\ output' = output \o <<EchoLine(sid, input)>>
                                       \o (IF step.done THEN ResultLines(sid, step.result) ELSE <<>>)
                        /\ Len(inflight') = Len(inflight) + (IF step.done THEN 0 ELSE 1)
     /\ ClearButtonKey => output' = <<>>
     /\ \A i \in 1..Len(inflight) : \A resp \in Answers(i) :
          Respond(i, resp) =>
            /\ output' = output \o (IF Continue(inflight[i], resp).done
                                      THEN ResultLines(inflight[i].sid,
                                                       Continue(inflight[i], resp).result)
                                      ELSE <<>>)
            /\ <<history', historyIndex', input'>> = <<history, historyIndex, input>>
     /\ ~(Submission /\ Verb(input) = "clear") =>
          \A k \in 1..Len(Appended) : Appended[k].kind \in {"echo", "out"} /\ Appended[k].sid >= 1
    ]_vars

\* C21 witness: the store throws and holds no scrollback snapshot, and two
\* commands have been executed all the same: a listing whose call was
\* answered, then a verb without its argument, each with its echo line and
\* its output in Scrollback and its line in History
C21_Witness ==
  /\ quotaExceeded
  /\ storedOutput = Absent
  /\ storedHistory = mountedFrom.hist
  /\ nextSid = 2
  /\ inflight = <<>>
  /\ Len(history) = Len(historyAtMount.val) + 2
  /\ Len(facadeLog) = 1
  /\ Len(output) > BannerLen + 3
  /\ LinesOf(output, 1)[1] = EchoLine(1, Line(<<"ls">>))
  /\ output[Len(output)] = ResultLines(2, Usage("cat"))[1]
  /\ output[Len(output) - 1] = EchoLine(2, Line(<<"cat">>))

\* C22: submissions are not serialized and output batches are in completion
\* order. A line submitted while other handlers are suspended is executed at
\* once (it is numbered, echoed at the bottom of Scrollback, and leaves the
\* suspended handlers suspended), and a handler that settles with output puts
\* its batch at the bottom of Scrollback as it is then, below the lines of
\* every command that settled before it, whichever was submitted first.
C22_BatchesInCompletionOrder ==
  [][/\ (Submission /\ inflight # <<>> /\ Verb(input) # "clear") =>
          /\ nextSid' = nextSid + 1
          /\ Appended # <<>>
          /\ Appended[1] = EchoLine(nextSid', input)
          /\ SubSeq(inflight', 1, Len(inflight)) = inflight
     /\ \A i \in 1..Len(inflight) : \A resp \in Answers(i) :
          (Respond(i, resp) /\ Continue(inflight[i], resp).done
             /\ Continue(inflight[i], resp).result # <<>>) =>
            /\ Appended # <<>>
            /\ output' = output \o Appended
            /\ \A k \in 1..Len(Appended) :
                 Appended[k].kind = "out" /\ Appended[k].sid = inflight[i].sid
    ]_vars

\* C22 witness: two commands that both called the service have settled, and
\* an output line of the second is above an output line of the first: the
\* second was submitted, and answered, while the first was suspended
C22_Witness ==
  /\ inflight = <<>>
  /\ CallsOf(facadeLog, 1) # <<>>
  /\ CallsOf(facadeLog, 2) # <<>>
  /\ \E i, j \in 1..Len(output) :
       /\ i < j
       /\ output[i].kind = "out" /\ output[i].sid = 2
       /\ output[j].kind = "out" /\ output[j].sid = 1

\* C23 as stated, for the batch of each error class: a handler that settles
\* at submission on a missing argument or on a redirect without target, or
\* that settles on a response with success: false or on a rejected call, has
\* appended a batch of at least one output line of its command, below its
\* echo line, and is no longer executing.
C23_EveryErrorEndsInOneBatch ==
  [][/\ (Submission /\ (C7_MissingArgs(input) \/ MissingTarget(input))) =>
          /\ Len(Appended) >= 2
          /\ Appended[1].kind = "echo"
          /\ \A k \in 2..Len(Appended) : Appended[k].kind = "out" /\ Appended[k].sid = nextSid'
          /\ inflight' = inflight
     /\ \A i \in 1..Len(inflight) : \A resp \in Answers(i) :
          (/\ Respond(i, resp)
           /\ resp.status \in {"fail", "reject"}
           /\ Continue(inflight[i], resp).done) =>
            /\ Len(inflight') = Len(inflight) - 1
            /\ Appended # <<>>
            /\ \A k \in 1..Len(Appended) :
                 Appended[k].kind = "out" /\ Appended[k].sid = inflight[i].sid
    ]_vars

\* C24 as stated: submitting help or man issues no facade call and appends
\* the same static text, and that text has a usage line for every verb the
\* switch of the executor dispatches on.
C24_HelpListsEveryVerb ==
  [][(Submission /\ Verb(input) \in {"help", "man"}) =>
       /\ UNCHANGED <<facadeLog, inflight>>
       /\ Appended = <<EchoLine(nextSid', input)>> \o ResultLines(nextSid', HelpText)
       /\ \A verb \in RegistryVerbs :
            \E k \in 2..Len(Appended) : Appended[k].text[1] = verb
    ]_vars

\* the position among the arguments of the first token that is > or >>, 0
\* when there is none
FirstOperator(args) ==
  IF \E i \in 1..Len(args) : args[i] \in {">", ">>"}
    THEN CHOOSE i \in 1..Len(args) :
           args[i] \in {">", ">>"} /\ \A j \in 1..(i - 1) : args[j] \notin {">", ">>"}
    ELSE 0

\* the last call recorded by the facade
LastCall(log) == log[Len(log)]

\* C25: redirection is scoped to echo and to the first operator. For an echo
\* line whose first > or >> is followed by a token, the command reads the
\* file named by that token and then writes to that same file a payload that
\* is the tokens before the operator as one line (after the existing content
\* for >>), whatever tokens follow the target. For any other verb a > or >>
\* among the arguments is a positional argument: touch and write pass it on
\* inside the content, and the command issues its verb's one call and no
\* read-then-write.
C25_RedirectOnlyEchoFirstOperator ==
  [][/\ (Submission /\ Verb(input) = "echo" /\ FirstOperator(Tail(Tokens(input))) # 0
           /\ ~MissingTarget(input)) =>
          LET args == Tail(Tokens(input)) IN
          /\ Len(facadeLog') = Len(facadeLog) + 1
          /\ LastCall(facadeLog') =
               [sid |-> nextSid', call |-> Call("readFile", args[FirstOperator(args) + 1], <<>>)]
     /\ \A i \in 1..Len(inflight) : \A resp \in Answers(i) :
          (Respond(i, resp) /\ inflight[i].cmd = "echo" /\ inflight[i].pc = 1
             /\ resp.status # "reject") =>
            LET args == inflight[i].args
                op == FirstOperator(args)
                payload == << SubSeq(args, 1, op - 1) >>
                call == LastCall(facadeLog').call
            IN  /\ Len(facadeLog') = Len(facadeLog) + 1
                /\ LastCall(facadeLog').sid = inflight[i].sid
                /\ call.target = args[op + 1]
                /\ call.op = IF args[op] = ">" /\ resp.status # "ok"
                               THEN "createFile" ELSE "updateFile"
                /\ call.content = IF args[op] = ">>" /\ resp.status = "ok"
                                    THEN ContentOf(resp) \o payload ELSE payload
     /\ (Submission /\ Verb(input) # "echo" /\ FirstOperator(Tail(Tokens(input))) # 0) =>
          LET args == Tail(Tokens(input)) IN
          /\ Len(facadeLog') <= Len(facadeLog) + 1
          /\ Len(facadeLog') = Len(facadeLog) + 1 =>
               /\ LastCall(facadeLog').call.op # "readFile" \/ Verb(input) = "cat"
               /\ Verb(input) = "touch" =>
                    LastCall(facadeLog').call = Call("createFile", args[1], << Tail(args) >>)
               /\ Verb(input) = "write" =>
                    LastCall(facadeLog').call = Call("updateFile", args[1], << Tail(args) >>)
     /\ \A i \in 1..Len(inflight) : \A resp \in Answers(i) :
          (Respond(i, resp) /\ inflight[i].cmd \notin TwoCallVerbs
             /\ FirstOperator(inflight[i].args) # 0) =>
            facadeLog' = facadeLog /\ Len(inflight') = Len(inflight) - 1
    ]_vars

\* C25 witness: `echo a > f >> g` has settled after reading f and writing "a"
\* to f, and nothing was sent about g
C25_Witness ==
  /\ inflight = <<>>
  /\ nextSid = 1
  /\ output[Len(output)] = EchoLine(1, Line(<<"echo", "a", ">", "f", ">>", "g">>))
  /\ Len(facadeLog) = 2
  /\ facadeLog[1].call = Call("readFile", "f", <<>>)
  /\ facadeLog[2].call.op \in {"updateFile", "createFile"}
  /\ facadeLog[2].call.target = "f"
  /\ facadeLog[2].call.content = << <<"a">> >>

\* C26 as stated: after non-blank submissions only, submitting history
\* appends, below its echo line, one line per entry that History holds at
\* that moment, in order and numbered from 1,
\* the lines submitted earlier in the session included, and the placeholder
\* only when History is empty.
C26_HistoryListsSession ==
  [][(Submission /\ Verb(input) = "history"
        /\ \A i \in 1..Len(history) : Tokens(history[i]) # <<>>) =>
       Appended = <<EchoLine(nextSid', input)>>
                    \o ResultLines(nextSid',
                         IF history = <<>>
                           THEN << <<"(no history)">> >>
                           ELSE [i \in 1..Len(history) |-> <<ToString(i)>> \o history[i]])
    ]_vars

\* C27: format disk is invoked only by mkfs or format with --force or -f as
\* first argument. Such a submission issues the formatDisk call; mkfs or
\* format without an argument or with another first argument issues no call
\* and appends the echo line and the two-line warning; and no step of any
\* other command adds a formatDisk call.
C27_FormatOnlyWhenForced ==
  [][LET isMkfs == Submission /\ Verb(input) \in {"mkfs", "format"}
         forced == /\ Len(Tokens(input)) >= 2
                   /\ Tokens(input)[2] \in {"--force", "-f"}
     IN  /\ (isMkfs /\ forced) =>
              /\ Len(facadeLog') = Len(facadeLog) + 1
              /\ LastCall(facadeLog') = [sid |-> nextSid', call |-> Call("formatDisk", "", <<>>)]
         /\ (isMkfs /\ ~forced) =>
              /\ UNCHANGED <<facadeLog, inflight>>
              /\ Len(Appended) = 3
              /\ Appended[1] = EchoLine(nextSid', input)
              /\ Appended[2].kind = "out" /\ Appended[3].kind = "out"
         /\ ~(isMkfs /\ forced) =>
              \A k \in (Len(facadeLog) + 1)..Len(facadeLog') :
                facadeLog'[k].call.op # "formatDisk"
    ]_vars

\* C27 witness: `format -f` was submitted, its one call was formatDisk, and
\* the service's success is the last line of Scrollback
C27_Witness ==
  /\ inflight = <<>>
  /\ nextSid = 1
  /\ facadeLog = << [sid |-> 1, call |-> Call("formatDisk", "", <<>>)] >>
  /\ Len(LinesOf(output, 1)) = 2
  /\ LinesOf(output, 1)[1] = EchoLine(1, Line(<<"format", "-f">>))
  /\ output[Len(output)].text = <<"mke2fs: filesystem created successfully">>

\* the lines of a file's content that are the one word p
HasLine(content, p) == \E k \in 1..Len(content) : content[k] = <<p>>

\* C28 as stated: when `echo P1 >> f` and `echo P2 >> f` have both been
\* submitted against an existing f, each has read f and updated it, every
\* call has succeeded (neither command printed an error) and both have
\* settled, the content of f holds both P1 and P2.
C28_NoLostUpdate ==
  (/\ inflight = <<>>
   /\ nextSid = 2
   /\ mountedFrom.out = Absent
   /\ \E a, b \in {"P1", "P2"} :
        /\ a # b
        /\ LinesOf(output, 1) = <<EchoLine(1, Line(<<"echo", a, ">>", "f">>))>>
        /\ LinesOf(output, 2) = <<EchoLine(2, Line(<<"echo", b, ">>", "f">>))>>
   /\ \A sid \in 1..2 :
        /\ Len(CallsOf(facadeLog, sid)) = 2
        /\ CallsOf(facadeLog, sid)[1].call.op = "readFile"
        /\ CallsOf(facadeLog, sid)[2].call.op = "updateFile"
        /\ Len(CallsOf(facadeLog, sid)[2].call.content) = 2
   /\ files["f"].exists)
  => (HasLine(files["f"].content, "P1") /\ HasLine(files["f"].content, "P2"))

\* C29 as stated: in every reachable state, every output line of a command in
\* Scrollback has the echo line of that command above it, also after clear
\* or the clear button was used while the command's call was outstanding.
C29_OutputBelowItsEcho ==
  \A j \in 1..Len(output) :
    output[j].kind = "out" =>
      \E i \in 1..(j - 1) : output[i].kind = "echo" /\ output[i].sid = output[j].sid

\* the non-blank lines entered since the panel was mounted, as History holds them
SessionEntries ==
  SelectSeq(SubSeq(history, Len(historyAtMount.val) + 1, Len(history)),
            LAMBDA l : Tokens(l) # <<>>)

\* C30: echo lines and History entries are in submission order, whatever
\* order the handlers settle in. The non-blank entries that History gained in
\* the session are the submissions in order, one per submission number; the
\* echo lines in Scrollback carry increasing submission numbers from top to
\* bottom, each showing the History entry of its number; and a response
\* changes neither History nor the echo lines on screen.
C30_SubmissionOrder ==
  /\ [](/\ Len(SessionEntries) = nextSid
        /\ \A i \in 1..Len(output) :
             output[i].kind = "echo" =>
               /\ output[i].sid \in 1..nextSid
               /\ output[i].text = <<PROMPT>> \o SessionEntries[output[i].sid]
               /\ \A j \in (i + 1)..Len(output) :
                    output[j].kind = "echo" => output[i].sid < output[j].sid)
  /\ [][/\ EnterKey => history' = Append(history, input)
        /\ \A i \in 1..Len(inflight) : \A resp \in Answers(i) :
             Respond(i, resp) =>
               /\ history' = history
               /\ SelectSeq(output', LAMBDA l : l.kind = "echo")
                    = SelectSeq(output, LAMBDA l : l.kind = "echo")
       ]_vars

\* C30 witness: the second command's output is above the first command's
\* output, the first command's echo line is above the second's, and History
\* ends with the two lines in the order they were submitted
C30_Witness ==
  /\ inflight = <<>>
  /\ nextSid = 2
  /\ Len(history) >= 2
  /\ history[Len(history) - 1] = Line(<<"ls">>)
  /\ history[Len(history)] = Line(<<"echo", "P1", ">>", "f">>)
  /\ \E i, j, k, l \in 1..Len(output) :
       /\ i < j /\ j < k /\ k < l
       /\ output[i] = EchoLine(1, Line(<<"ls">>))
       /\ output[j] = EchoLine(2, Line(<<"echo", "P1", ">>", "f">>))
       /\ output[k].kind = "out" /\ output[k].sid = 2
       /\ output[l].kind = "out" /\ output[l].sid = 1
====
